---- MODULE Spec2Model ----
(***************************************************************************)
(* Model of ahrs.filters.madgwick.Madgwick: construction (__init__), the   *)
(* batch driver (_compute_all) and the per-sample steps (updateIMU,        *)
(* updateMARG).                                                            *)
(*                                                                         *)
(* Numbers.  A double x is modelled by the integer round(x * Scale)        *)
(* (fixed point), with products and quotients rounded to the nearest unit. *)
(* The IEEE value NaN, which numpy produces for 0/0, is modelled by the    *)
(* integer NaN, outside the range of every other value; an array holding   *)
(* NaN holds it in every component, as in the code (a whole array is       *)
(* divided by one zero norm).  The gain is kept in thousandths, and the    *)
(* sampling step and frequency as exact fractions <<numerator,             *)
(* denominator>>.                                                          *)
(*                                                                         *)
(* Arrays.  A numpy N-by-W array (N >= 1) is a sequence of N tuples of W   *)
(* numbers; its shape is <<N, W>>.  A quaternion is a tuple of 4 numbers.  *)
(* None is the empty tuple for array-valued and fraction-valued arguments, *)
(* and NoGain for the gain arguments.                                      *)
(***************************************************************************)
EXTENDS Integers, Sequences, FiniteSets, TLC

\* ------------------------------------------------------------- bounds
\* Fixed-point resolution: the model's unit is 1/Scale.
Scale == 1000
\* Longest sensor array (rows) given to the constructor.
MaxN == 3
\* Most per-sample update calls a caller makes on one filter object.
MaxCalls == 2

\* ------------------------------------------------- program constants
\* Default gains, in thousandths (0.033 and 0.041), and default frequency.
GainIMU == 33
GainMARG == 41
DefaultFrequency == 100

\* ------------------------------------------------------------ numbers
NaN == 2^30
None == <<>>
NoGain == -1

\* a / b rounded to the nearest integer (b > 0), halves away from zero.
Div(a, b) ==
  IF a >= 0 THEN (2 * a + b) \div (2 * b) ELSE -((2 * (-a) + b) \div (2 * b))

RECURSIVE SqrtIter(_, _, _)
SqrtIter(n, lo, hi) ==
  IF hi - lo <= 1 THEN lo
  ELSE LET mid == (lo + hi) \div 2
       IN IF mid * mid <= n THEN SqrtIter(n, mid, hi) ELSE SqrtIter(n, lo, mid)

\* Square root of n >= 0, rounded to the nearest integer.
Sqrt(n) ==
  LET r == SqrtIter(n, 0, 46341)
  IN IF n - r * r > r THEN r + 1 ELSE r

IsNaN(v) == \E i \in 1..Len(v) : v[i] = NaN

NaNs(n) == [i \in 1..n |-> NaN]

RECURSIVE SumSq(_)
SumSq(v) == IF v = <<>> THEN 0 ELSE v[1] * v[1] + SumSq(Tail(v))

\* np.linalg.norm of a vector (NaN when the vector holds NaN).
Norm(v) == IF IsNaN(v) THEN NaN ELSE Sqrt(SumSq(v))

\* v / s for a scalar s: numpy gives NaN for 0/0 and for NaN operands.  The
\* code divides a vector only by its own norm, so a zero divisor meets a zero
\* vector and every component is 0/0.
VecDiv(v, s) ==
  IF IsNaN(v) \/ s = NaN \/ s = 0 THEN NaNs(Len(v))
  ELSE [i \in 1..Len(v) |-> Div(v[i] * Scale, s)]

\* np.append(0., v)
Append0(v) == <<0>> \o v

\* ------------------------------------------------- ahrs.common.orientation
\* Hamilton product of two quaternions (components 0..3 of each operand).
q_prod(p, q) ==
  IF IsNaN(p) \/ IsNaN(q) THEN NaNs(4)
  ELSE << Div(p[1]*q[1] - p[2]*q[2] - p[3]*q[3] - p[4]*q[4], Scale),
          Div(p[1]*q[2] + p[2]*q[1] + p[3]*q[4] - p[4]*q[3], Scale),
          Div(p[1]*q[3] - p[2]*q[4] + p[3]*q[1] + p[4]*q[2], Scale),
          Div(p[1]*q[4] + p[2]*q[3] - p[3]*q[2] + p[4]*q[1], Scale) >>

\* Conjugate of a quaternion.
q_conj(q) == IF IsNaN(q) THEN NaNs(4) ELSE << q[1], -q[2], -q[3], -q[4] >>

\* ------------------------------------------------- objective functions
RECURSIVE Dot(_, _, _)
\* Sum over the rows k of J of J[k][i] * f[k]: component i of J.T @ f.
Dot(J, f, i) ==
  IF J = <<>> THEN 0 ELSE Head(J)[i] * Head(f) + Dot(Tail(J), Tail(f), i)

\* gradient = J.T @ f
JTf(J, f) == [i \in 1..4 |-> Div(Dot(J, f, i), Scale)]

\* Gravity residual (eq. 25) for the normalized quaternion qn and the
\* normalized sample a.
f_g(qn, a) ==
  LET qw == qn[1]  qx == qn[2]  qy == qn[3]  qz == qn[4]
  IN << Div(2 * (qx*qz - qw*qy), Scale) - a[1],
        Div(2 * (qw*qx + qy*qz), Scale) - a[2],
        Div(Scale*Scale - 2*qx*qx - 2*qy*qy, Scale) - a[3] >>

\* Gravity Jacobian (eq. 26).
J_g(qn) ==
  LET qw == qn[1]  qx == qn[2]  qy == qn[3]  qz == qn[4]
  IN << << -2*qy,  2*qz, -2*qw, 2*qx >>,
        <<  2*qx,  2*qw,  2*qz, 2*qy >>,
        <<  0,    -4*qx, -4*qy, 0    >> >>

\* Magnetic residual (rows 4..6 of eq. 31) for the reference field (bx, bz).
f_b(qn, bx, bz, m) ==
  LET qw == qn[1]  qx == qn[2]  qy == qn[3]  qz == qn[4]
      half_yz == Div(Scale*Scale - 2*qy*qy - 2*qz*qz, 2 * Scale)
      half_xy == Div(Scale*Scale - 2*qx*qx - 2*qy*qy, 2 * Scale)
  IN << Div(2*bx*half_yz, Scale)
          + Div(2*bz*Div(qx*qz - qw*qy, Scale), Scale) - m[1],
        Div(2*bx*Div(qx*qy - qw*qz, Scale), Scale)
          + Div(2*bz*Div(qw*qx + qy*qz, Scale), Scale) - m[2],
        Div(2*bx*Div(qw*qy + qx*qz, Scale), Scale)
          + Div(2*bz*half_xy, Scale) - m[3] >>

\* Magnetic Jacobian (rows 4..6 of eq. 32).
J_b(qn, bx, bz) ==
  LET qw == qn[1]  qx == qn[2]  qy == qn[3]  qz == qn[4]
  IN << << Div(-2*bz*qy, Scale),            Div(2*bz*qz, Scale),
           Div(-4*bx*qy - 2*bz*qw, Scale),  Div(-4*bx*qz + 2*bz*qx, Scale) >>,
        << Div(-2*bx*qz + 2*bz*qx, Scale),  Div(2*bx*qy + 2*bz*qw, Scale),
           Div(2*bx*qx + 2*bz*qz, Scale),   Div(-2*bx*qw + 2*bz*qy, Scale) >>,
        << Div(2*bx*qy, Scale),             Div(2*bx*qz - 4*bz*qx, Scale),
           Div(2*bx*qw - 4*bz*qy, Scale),   Div(2*bx*qx, Scale) >> >>

\* ------------------------------------------------------ update steps
\* qDot = 0.5 * q_prod(q, np.append(0., gyr_sample))            (eq. 12)
GyroRate(q, gyr_sample) ==
  LET p == q_prod(q, Append0(gyr_sample))
  IN IF IsNaN(p) THEN p ELSE [i \in 1..4 |-> Div(p[i], 2)]

\* gradient /= np.linalg.norm(gradient);  qDot -= gain * gradient  (eq. 33)
Descend(qDot, gradient, gain) ==
  LET g == VecDiv(gradient, Norm(gradient))
  IN IF IsNaN(qDot) \/ IsNaN(g) THEN NaNs(4)
     ELSE [i \in 1..4 |-> qDot[i] - Div(gain * g[i], 1000)]

\* q += qDot * Dt                                                (eq. 13)
Advance(q, qDot, Dt) ==
  IF IsNaN(q) \/ IsNaN(qDot) THEN NaNs(4)
  ELSE [i \in 1..4 |-> q[i] + Div(qDot[i] * Dt[1], Dt[2])]

\* q += qDot * Dt;  q /= np.linalg.norm(q)
Integrate(q, qDot, Dt) ==
  LET qi == Advance(q, qDot, Dt)
  IN VecDiv(qi, Norm(qi))

\* The gradient of the IMU objective function at q for the sample acc_sample
\* of norm a_norm > 0.
GradientIMU(q, acc_sample, a_norm) ==
  LET a  == VecDiv(acc_sample, a_norm)
      qn == VecDiv(q, Norm(q))
  IN IF IsNaN(qn) \/ IsNaN(a) THEN NaNs(4) ELSE JTf(J_g(qn), f_g(qn, a))

\* updateIMU, lines 632-647: qDot, corrected by the gradient when the
\* accelerometer sample is not zero.
QDotIMU(q, gyr_sample, acc_sample, gain) ==
  LET qDot0  == GyroRate(q, gyr_sample)
      a_norm == Norm(acc_sample)
  IN IF a_norm > 0
     THEN Descend(qDot0, GradientIMU(q, acc_sample, a_norm), gain)
     ELSE qDot0

\* updateIMU without its zero-gyroscope guard.
updateIMU_NoGyroGuard(q, gyr_sample, acc_sample, gain, Dt) ==
  LET qDot0  == GyroRate(q, gyr_sample)
      a_norm == Norm(acc_sample)
      qDot   == IF a_norm > 0
                THEN Descend(qDot0, GradientIMU(q, acc_sample, a_norm), gain)
                ELSE qDot0
  IN Integrate(q, qDot, Dt)

\* Madgwick.updateIMU.  The value is the array the method returns, which is
\* the very array it was given: unchanged on the early return, overwritten in
\* place (q += ..., q /= ...) otherwise.
updateIMU(q, gyr_sample, acc_sample, gain, Dt) ==
  IF ~(Norm(gyr_sample) > 0) THEN q
  ELSE Integrate(q, QDotIMU(q, gyr_sample, acc_sample, gain), Dt)

\* h = q_prod(q, q_prod(np.append(0., m), q_conj(q)))            (eq. 45)
RotateMag(q, m) == q_prod(q, q_prod(Append0(m), q_conj(q)))

\* The reference field taken from the last two components of h.
ReferenceField_YZ(h) == << Sqrt(h[3]*h[3] + h[4]*h[4]), h[4] >>

\* bx = np.sqrt(h[1]**2 + h[2]**2);  bz = h[3]                    (eq. 46)
ReferenceField(h) == << Sqrt(h[2]*h[2] + h[3]*h[3]), h[4] >>

\* gradient = J.T @ f for the stacked residual and Jacobian (eq. 31, 32, 34)
\* with the reference field b = (bx, bz).
GradientRef(qn, a, m, b) ==
  JTf(J_g(qn) \o J_b(qn, b[1], b[2]), f_g(qn, a) \o f_b(qn, b[1], b[2], m))

\* The gradient of the MARG objective function.
GradientMARG(q, acc_sample, a_norm, mag_sample) ==
  LET a  == VecDiv(acc_sample, a_norm)
      m  == VecDiv(mag_sample, Norm(mag_sample))
      h  == RotateMag(q, m)
      qn == VecDiv(q, Norm(q))
  IN IF IsNaN(qn) \/ IsNaN(a) \/ IsNaN(m) \/ IsNaN(h) THEN NaNs(4)
     ELSE GradientRef(qn, a, m, ReferenceField(h))

\* updateMARG's qDot without the test of the accelerometer norm.
QDotMARG_NoAccGuard(q, gyr_sample, acc_sample, mag_sample, gain) ==
  Descend(GyroRate(q, gyr_sample),
          GradientMARG(q, acc_sample, Norm(acc_sample), mag_sample), gain)

\* updateMARG, lines 701-726: qDot, corrected by the gradient when the
\* accelerometer sample is not zero.
QDotMARG(q, gyr_sample, acc_sample, mag_sample, gain) ==
  LET qDot0  == GyroRate(q, gyr_sample)
      a_norm == Norm(acc_sample)
  IN IF a_norm > 0
     THEN Descend(qDot0, GradientMARG(q, acc_sample, a_norm, mag_sample), gain)
     ELSE qDot0

\* updateMARG, lines 701-729: the step with all three samples.
StepMARG(q, gyr_sample, acc_sample, mag_sample, gain, Dt) ==
  Integrate(q, QDotMARG(q, gyr_sample, acc_sample, mag_sample, gain), Dt)

\* updateMARG without its zero-gyroscope guard.
updateMARG_NoGyroGuard(q, gyr_sample, acc_sample, mag_sample, gain, Dt) ==
  IF ~(Norm(mag_sample) > 0)
  THEN updateIMU(q, gyr_sample, acc_sample, gain, Dt)
  ELSE StepMARG(q, gyr_sample, acc_sample, mag_sample, gain, Dt)

\* updateMARG without its zero-magnetometer guard.
updateMARG_NoMagGuard(q, gyr_sample, acc_sample, mag_sample, gain, Dt) ==
  IF ~(Norm(gyr_sample) > 0) THEN q
  ELSE StepMARG(q, gyr_sample, acc_sample, mag_sample, gain, Dt)

\* Madgwick.updateMARG; as for updateIMU the value is the argument array.
updateMARG(q, gyr_sample, acc_sample, mag_sample, gain, Dt) ==
  IF ~(Norm(gyr_sample) > 0) THEN q
  ELSE IF ~(Norm(mag_sample) > 0)
       THEN updateIMU(q, gyr_sample, acc_sample, gain, Dt)
  ELSE StepMARG(q, gyr_sample, acc_sample, mag_sample, gain, Dt)

\* ------------------------------------------- initial-attitude estimators
Identity == << Scale, 0, 0, 0 >>

\* cos and sin of half an angle whose cosine is c (in 0..pi), by the
\* half-angle formulas.
HalfCos(c) == Sqrt((Scale * (Scale + c)) \div 2)
HalfSin(c) == Sqrt((Scale * (Scale - c)) \div 2)

\* acc2q: the attitude (roll, pitch) of the gravity direction a, as a unit
\* quaternion; the identity for a zero sample or one that has not 3 components.
acc2q(a) ==
  IF Len(a) # 3 \/ Norm(a) = 0 THEN Identity
  ELSE LET an  == VecDiv(a, Norm(a))
           r   == Sqrt(an[2]*an[2] + an[3]*an[3])
           cex == IF r = 0 THEN Scale
                  ELSE IF Div(an[3] * Scale, r) > Scale THEN Scale
                  ELSE IF Div(an[3] * Scale, r) < -Scale THEN -Scale
                  ELSE Div(an[3] * Scale, r)
           cey == IF r > Scale THEN Scale ELSE r
           cx2 == HalfCos(cex)
           sx2 == IF an[2] < 0 THEN -HalfSin(cex) ELSE HalfSin(cex)
           cy2 == HalfCos(cey)
           sy2 == IF an[1] > 0 THEN -HalfSin(cey) ELSE HalfSin(cey)
           q   == << Div(cx2*cy2, Scale), Div(sx2*cy2, Scale),
                     Div(cx2*sy2, Scale), Div(-sx2*sy2, Scale) >>
       IN VecDiv(q, Norm(q))

\* am2q: the attitude of acc2q turned about the vertical by the heading of the
\* magnetic sample m.
am2q(a, m) ==
  LET h   == Sqrt(m[1]*m[1] + m[2]*m[2])
      c   == IF h = 0 THEN Scale ELSE Div(m[1] * Scale, h)
      yaw == << HalfCos(c), 0, 0,
                IF m[2] < 0 THEN -HalfSin(c) ELSE HalfSin(c) >>
      q   == q_prod(yaw, acc2q(a))
  IN VecDiv(q, Norm(q))

\* ------------------------------------------------------------ arrays
\* A shape that counts the rows only.
ShapeRowsOnly(a) == << Len(a) >>

\* The shape (rows, columns) of a numpy array with at least one row.
Shape(a) == << Len(a), Len(a[1]) >>

\* np.zeros((n, 4))
Zeros(n) == [i \in 1..n |-> << 0, 0, 0, 0 >>]

\* 1. / x of a fraction.
Recip(x) == << x[2], x[1] >>

\* Whether two fractions are the same number.
FracEq(x, y) == x[1] * y[2] = y[1] * x[2]

\* -------------------------------------------------------------- state
VARIABLES
  args,       \* the arguments of Madgwick(...)
  pc,         \* where the constructor is: "init", "seed", "compute",
              \* "magcheck", "loopIMU", "loopMARG", "ready" or "failed"
  gyr, acc, mag, has_mag, frequency, Dt, gain, q0, Q,   \* the attributes
  Qloc, t,    \* _compute_all's local array Q and its loop index t
  err,        \* the message of the exception raised, "" when none
  qc,         \* the caller's quaternion array, given to the update steps
  ret,        \* the array the latest update step returned
  call,       \* the arguments of the latest update step, with the gain and
              \* the sampling step it ran under
  ncalls      \* how many update steps the caller has made

attrs  == << gyr, acc, mag, has_mag, frequency, Dt, gain, q0, Q >>
batch  == << Qloc, t >>
caller == << qc, ret, call, ncalls >>
vars   == << args, pc, attrs, batch, err, caller >>

\* ------------------------------------------------------------- inputs
Zero3 == << 0, 0, 0 >>
\* Gyroscope samples: none (no rotation) and 1 rad/s about x.
GyrSamples == { Zero3, << Scale, 0, 0 >> }
\* Accelerometer samples: gravity along +Z (9.81 m/s^2) and a tilted one.
AccSamples == { << 0, 0, Div(981 * Scale, 100) >>, << 3 * Scale, 0, 4 * Scale >> }
\* Magnetometer samples: a dropout (zero) and a field with a heading.
MagSamples == { Zero3, << Scale, 2 * Scale, -Scale >> }
\* Seeds a caller passes as q0: none, a non-unit identity, a non-unit tilt.
Q0Args == { None, << 2 * Scale, 0, 0, 0 >>, << 3 * Scale, 4 * Scale, 0, 0 >> }
\* A sample with a fourth component (a row of an N-by-4 array).
Widen(s) == s \o << Scale >>
\* An array of n rows, each the sample s, w wide.
Const(n, w, s) == [i \in 1..n |-> IF w = 3 THEN s ELSE Widen(s)]

Args(g, a, m, q, gn, f, d, b) ==
  [gyr |-> g, acc |-> a, mag |-> m, q0 |-> q, gain |-> gn, frequency |-> f,
   Dt |-> d, beta |-> b]

\* Aligned N-by-3 arrays: every gyroscope and magnetometer content, a steady
\* accelerometer, at 2 Hz with the default gain.
ArgsTraj ==
  UNION { { Args(g, Const(n, 3, a), m, q, NoGain, << 2, 1 >>, None, NoGain) :
              g \in [1..n -> GyrSamples], a \in AccSamples,
              m \in {None} \cup [1..n -> MagSamples], q \in Q0Args } :
          n \in 1..MaxN }

\* Arrays of every shape (rows 1..MaxN, 3 or 4 columns), of one content.
ArgsShape ==
  { Args(Const(ng, wg, << Scale, 0, 0 >>), Const(na, wa, << 0, 0, Scale >>), m, q,
         NoGain, << 2, 1 >>, None, NoGain) :
      ng \in 1..MaxN, na \in 1..MaxN, wg \in {3, 4}, wa \in {3, 4},
      m \in {None} \cup { Const(nm, wm, << Scale, 2 * Scale, -Scale >>) :
                            nm \in 1..MaxN, wm \in {3, 4} },
      q \in { None, Identity } }

\* Every way of giving the gain, its alias, the frequency and the step, with
\* and without magnetometer data, with one sample or none.
ArgsConfig ==
  { Args(ga[1], ga[2], m, None, gn, f, d, b) :
      ga \in { << None, None >>,
               << Const(1, 3, << Scale, 0, 0 >>), Const(1, 3, << 0, 0, Scale >>) >> },
      m \in { None, Const(1, 3, << Scale, 2 * Scale, -Scale >>) },
      gn \in { NoGain, 500 }, b \in { NoGain, 250 },
      f \in { << DefaultFrequency, 1 >>, << 2, 1 >> },
      d \in { None, << 1, 2 >>, << 1, 200 >> } }

\* ------------------------------------------------------- construction
\* The gain with the explicit gain taking precedence over beta.
ResolveGain_GainFirst(beta, gain_arg, mag_arg) ==
  IF gain_arg # NoGain THEN gain_arg
  ELSE IF beta # NoGain THEN beta
  ELSE IF mag_arg = None THEN GainIMU
  ELSE GainMARG

\* __init__, lines 537-545: the gain from beta, gain and mag.
ResolveGain(beta, gain_arg, mag_arg) ==
  IF beta # NoGain THEN beta
  ELSE IF gain_arg = NoGain /\ mag_arg = None THEN GainIMU
  ELSE IF gain_arg = NoGain /\ mag_arg # None THEN GainMARG
  ELSE gain_arg

\* The timing with the frequency left as given when Dt is given.
ResolveTiming_StaleFrequency(frequency_arg, Dt_arg) ==
  IF Dt_arg = None
  THEN [frequency |-> frequency_arg, Dt |-> << frequency_arg[2], frequency_arg[1] >>]
  ELSE [frequency |-> frequency_arg, Dt |-> Dt_arg]

\* __init__, lines 530-535: the frequency and the sampling step.
ResolveTiming(frequency_arg, Dt_arg) ==
  IF Dt_arg = None
  THEN [frequency |-> frequency_arg, Dt |-> Recip(frequency_arg)]
  ELSE [frequency |-> Recip(Dt_arg), Dt |-> Dt_arg]

\* __init__, lines 549-554: the seed quaternion.
SeedOf_AccOnly(q0_arg, mag_given, acc_arr, mag_arr) ==
  IF q0_arg # None THEN VecDiv(q0_arg, Norm(q0_arg))
  ELSE acc2q(acc_arr[1])

SeedOf(q0_arg, mag_given, acc_arr, mag_arr) ==
  IF q0_arg # None THEN VecDiv(q0_arg, Norm(q0_arg))
  ELSE IF mag_given THEN am2q(acc_arr[1], mag_arr[1])
  ELSE acc2q(acc_arr[1])

\* __init__, lines 517-545: store the arrays, the timing and the gain.
Configure ==
  /\ pc = "init"
  /\ LET do_computation == args.gyr # None /\ args.acc # None
         timing == ResolveTiming(args.frequency, args.Dt)
     IN /\ gyr' = IF do_computation THEN args.gyr ELSE gyr
        /\ acc' = IF do_computation THEN args.acc ELSE acc
        /\ mag' = IF args.mag # None THEN args.mag ELSE mag
        /\ has_mag' = (args.mag # None)
        /\ frequency' = timing.frequency
        /\ Dt' = timing.Dt
        /\ gain' = ResolveGain(args.beta, args.gain, args.mag)
        /\ pc' = IF do_computation THEN "seed" ELSE "ready"
  /\ UNCHANGED << args, q0, Q, batch, err, caller >>

\* __init__, lines 547-554: grab q0 from the inputs or precompute it.
Seed ==
  /\ pc = "seed"
  /\ q0' = SeedOf(args.q0, has_mag, acc, mag)
  /\ pc' = "compute"
  /\ UNCHANGED << args, gyr, acc, mag, has_mag, frequency, Dt, gain, Q, batch,
                  err, caller >>

\* _compute_all with loops that start at sample 0: row 0 is the seed pushed
\* through one update with the first samples.
ComputeAllBegin_FromSampleZero ==
  /\ pc = "compute"
  /\ IF Shape(acc) # Shape(gyr)
     THEN /\ err' = "acc and gyr are not the same size"
          /\ pc' = "failed"
          /\ UNCHANGED batch
     ELSE /\ Qloc' = [Zeros(Len(acc)) EXCEPT
                        ![1] = IF has_mag /\ Shape(mag) = Shape(gyr)
                               THEN updateMARG(q0, gyr[1], acc[1], mag[1],
                                               gain, Dt)
                               ELSE updateIMU(q0, gyr[1], acc[1], gain, Dt)]
          /\ t' = 1
          /\ pc' = IF ~has_mag THEN "loopIMU" ELSE "magcheck"
          /\ err' = err
  /\ UNCHANGED << args, attrs, caller >>

\* _compute_all, lines 571-575: the first shape check, then Q = zeros and
\* Q[0] = q0.
ComputeAllBegin ==
  /\ pc = "compute"
  /\ IF Shape(acc) # Shape(gyr)
     THEN /\ err' = "acc and gyr are not the same size"
          /\ pc' = "failed"
          /\ UNCHANGED batch
     ELSE /\ Qloc' = [Zeros(Len(acc)) EXCEPT ![1] = q0]
          /\ t' = 1
          /\ pc' = IF ~has_mag THEN "loopIMU" ELSE "magcheck"
          /\ err' = err
  /\ UNCHANGED << args, attrs, caller >>

\* Q[t] = update(Q[t - 1], ...): Q[t - 1] is a view of row t-1, which the
\* update overwrites in place with the array it returns; row t gets a copy.
\* (Rows are numbered from 1 here, so the code's row t-1 is row t.)
StoreStep(Qa, k, r) == [Qa EXCEPT ![k] = r, ![k + 1] = r]

\* _compute_all, lines 578-579: one iteration of the IMU loop.
LoopIMU ==
  /\ pc = "loopIMU"
  /\ t < Len(acc)
  /\ Qloc' = StoreStep(Qloc, t,
                       updateIMU(Qloc[t], gyr[t + 1], acc[t + 1], gain, Dt))
  /\ t' = t + 1
  /\ UNCHANGED << args, pc, attrs, err, caller >>

\* _compute_all, lines 582-583: the second shape check.
MagCheck ==
  /\ pc = "magcheck"
  /\ IF Shape(mag) # Shape(gyr)
     THEN /\ err' = "mag and gyr are not the same size"
          /\ pc' = "failed"
     ELSE /\ pc' = "loopMARG"
          /\ err' = err
  /\ UNCHANGED << args, attrs, batch, caller >>

\* _compute_all, lines 584-585: one iteration of the MARG loop.
LoopMARG ==
  /\ pc = "loopMARG"
  /\ t < Len(acc)
  /\ Qloc' = StoreStep(Qloc, t,
                       updateMARG(Qloc[t], gyr[t + 1], acc[t + 1], mag[t + 1],
                                  gain, Dt))
  /\ t' = t + 1
  /\ UNCHANGED << args, pc, attrs, err, caller >>

\* _compute_all, lines 580 and 586, and __init__, line 556: self.Q = Q.
Return ==
  /\ pc \in { "loopIMU", "loopMARG" }
  /\ t >= Len(acc)
  /\ Q' = Qloc
  /\ pc' = "ready"
  /\ UNCHANGED << args, gyr, acc, mag, has_mag, frequency, Dt, gain, q0, batch,
                  err, caller >>

\* The state before __init__ runs: no attribute is set.
Unset ==
  /\ pc = "init"
  /\ gyr = None /\ acc = None /\ mag = None /\ has_mag = FALSE
  /\ frequency = None /\ Dt = None /\ gain = NoGain /\ q0 = None /\ Q = None
  /\ Qloc = None /\ t = 0 /\ err = ""
  /\ ret = None /\ call = None /\ ncalls = 0

\* Eager (and, with no arrays, lazy) construction.
Init ==
  /\ args \in ArgsTraj \cup ArgsShape \cup ArgsConfig
  /\ qc = None
  /\ Unset

Next ==
  \/ Configure
  \/ Seed
  \/ ComputeAllBegin
  \/ LoopIMU
  \/ MagCheck
  \/ LoopMARG
  \/ Return

Spec == Init /\ [][Next]_vars

\* ------------------------------------------------- per-sample interface
\* Quaternions a caller starts from: the identity, a unit tilt about x, and
\* the zero quaternion (not a valid orientation).
QSamples == { Identity, << Div(3 * Scale, 5), Div(4 * Scale, 5), 0, 0 >>,
              << 0, 0, 0, 0 >> }
\* Accelerometer samples of a caller: also a dropout (zero).
AccStep == AccSamples \cup { Zero3 }
\* The sampling step a caller sets for a variable-rate stream.
DtSteps == { << 1, 4 >> }

\* A filter for use through updateIMU and updateMARG: built with no arrays,
\* or from a recording of two samples, with and without a magnetometer.
ArgsStep ==
  { Args(None, None, None, None, gn, f, None, NoGain) :
      gn \in { NoGain, 500 }, f \in { << 2, 1 >> } }
  \cup
  { Args(Const(2, 3, << Scale, 0, 0 >>), Const(2, 3, << 3 * Scale, 0, 4 * Scale >>),
         m, << 3 * Scale, 4 * Scale, 0, 0 >>, NoGain, << 2, 1 >>, None, NoGain) :
      m \in { None, Const(2, 3, << Scale, 2 * Scale, -Scale >>) } }

\* ret = madgwick.updateIMU(qc, gyr_sample, acc_sample), qc being the caller's
\* array: the method works in that array (q += ..., q /= ..., lines 648-649)
\* and returns it, so the argument and the result are one array afterwards.
CallUpdateIMU ==
  /\ pc = "ready"
  /\ ncalls < MaxCalls
  /\ \E g \in GyrSamples, a \in AccStep :
       LET r == updateIMU(qc, g, a, gain, Dt)
       IN /\ qc' = r
          /\ ret' = r
          /\ call' = [op |-> "updateIMU", q |-> qc, gyr |-> g, acc |-> a,
                      mag |-> None, gain |-> gain, Dt |-> Dt]
  /\ ncalls' = ncalls + 1
  /\ UNCHANGED << args, pc, attrs, batch, err >>

\* An updateMARG that keeps the orientation it computed in the object.
CallUpdateMARG_StoresQ0 ==
  /\ pc = "ready"
  /\ ncalls < MaxCalls
  /\ \E g \in GyrSamples, a \in AccStep, m \in MagSamples :
       LET r == updateMARG(qc, g, a, m, gain, Dt)
       IN /\ qc' = r
          /\ ret' = r
          /\ q0' = r
          /\ call' = [op |-> "updateMARG", q |-> qc, gyr |-> g, acc |-> a,
                      mag |-> m, gain |-> gain, Dt |-> Dt]
  /\ ncalls' = ncalls + 1
  /\ UNCHANGED << args, pc, gyr, acc, mag, has_mag, frequency, Dt, gain, Q,
                  batch, err >>

\* ret = madgwick.updateMARG(qc, gyr_sample, acc_sample, mag_sample), in the
\* caller's array as well (lines 727-728).
CallUpdateMARG ==
  /\ pc = "ready"
  /\ ncalls < MaxCalls
  /\ \E g \in GyrSamples, a \in AccStep, m \in MagSamples :
       LET r == updateMARG(qc, g, a, m, gain, Dt)
       IN /\ qc' = r
          /\ ret' = r
          /\ call' = [op |-> "updateMARG", q |-> qc, gyr |-> g, acc |-> a,
                      mag |-> m, gain |-> gain, Dt |-> Dt]
  /\ ncalls' = ncalls + 1
  /\ UNCHANGED << args, pc, attrs, batch, err >>

\* madgwick.Dt = new_sample_rate (the class docstring's variable-rate loop).
SetDt ==
  /\ pc = "ready"
  /\ \E d \in DtSteps : Dt' = d
  /\ UNCHANGED << args, pc, gyr, acc, mag, has_mag, frequency, gain, q0, Q,
                  batch, err, caller >>

InitStep ==
  /\ args \in ArgsStep
  /\ qc \in QSamples
  /\ Unset

NextStep ==
  \/ Configure
  \/ Seed
  \/ ComputeAllBegin
  \/ LoopIMU
  \/ MagCheck
  \/ LoopMARG
  \/ Return
  \/ CallUpdateIMU
  \/ CallUpdateMARG
  \/ SetDt

SpecStep == InitStep /\ [][NextStep]_vars

\* ------------------------------------------------------------- claims
\* What the batch driver is meant to store in row k > 1 (numbered from 1):
\* the update step applied to row k-1 and sample k.
StepOf(prev, k) ==
  IF has_mag THEN updateMARG(prev, gyr[k], acc[k], mag[k], gain, Dt)
  ELSE updateIMU(prev, gyr[k], acc[k], gain, Dt)

Built == pc = "ready" /\ Q # None

\* C1: after eager construction Q has N rows, row 0 is the seed quaternion,
\* and every later row is the update step applied to the row before it and
\* the sample of its index.  (Stated for the runs in which no row is NaN, so
\* that a violation owes nothing to the division by a zero norm.)
C1_BatchIsFoldFromSeed ==
  (Built /\ \A k \in 1..Len(Q) : ~IsNaN(Q[k])) =>
           /\ Len(Q) = Len(gyr)
           /\ Q[1] = q0
           /\ \A k \in 2..Len(Q) : Q[k] = StepOf(Q[k - 1], k)

\* C2: an update step given a zero-norm gyroscope sample returns its input
\* quaternion unchanged, whatever the other samples, and raises nothing.
C2_ZeroGyroReturnsInput ==
  (call # None /\ Norm(call.gyr) = 0) =>
     /\ ret = call.q
     /\ qc = call.q
     /\ err = ""

C2_Witness ==
  /\ call # None
  /\ call.op = "updateMARG"
  /\ Norm(call.gyr) = 0 /\ Norm(call.acc) = 0 /\ Norm(call.mag) = 0
  /\ ret = call.q

\* C3: updateMARG given a zero-norm magnetometer sample (and a nonzero
\* gyroscope sample) returns what updateIMU returns for the same quaternion,
\* gyroscope and accelerometer samples, gain and sampling step.
C3_MagDropoutIsIMUStep ==
  (/\ call # None
   /\ call.op = "updateMARG"
   /\ Norm(call.gyr) > 0
   /\ Norm(call.mag) = 0) =>
     ret = updateIMU(call.q, call.gyr, call.acc, call.gain, call.Dt)

C3_Witness ==
  /\ call # None
  /\ call.op = "updateMARG"
  /\ Norm(call.gyr) > 0 /\ Norm(call.mag) = 0 /\ Norm(call.acc) > 0
  /\ ~IsNaN(ret)
  /\ ret # call.q

\* Within two units of the fixed-point resolution of norm one.
UnitNorm(q) == ~IsNaN(q) /\ Norm(q) - Scale \in -2..2

\* C4: an update step given a unit quaternion returns a unit quaternion,
\* never NaN.
C4_UpdateKeepsUnitNorm ==
  (call # None /\ UnitNorm(call.q)) => UnitNorm(ret)

\* The sample counts of the arrays given disagree.
CountsDiffer ==
  /\ args.gyr # None /\ args.acc # None
  /\ \/ Len(args.gyr) # Len(args.acc)
     \/ args.mag # None /\ Len(args.mag) # Len(args.gyr)

\* C5: construction from arrays whose sample counts differ fails before any
\* update step and before any computation on the samples, seed estimation
\* included, and stores no Q.
C5_MismatchFailsBeforeAnyComputation ==
  CountsDiffer =>
     /\ pc \notin { "loopIMU", "loopMARG", "ready" }
     /\ t <= 1
     /\ Q = None
     /\ args.q0 = None => q0 = None

\* The width of the rows of an array given.
Width(a) == Len(a[1])

\* Some array given has rows that are not 3 wide.
WidthNot3 ==
  /\ args.gyr # None /\ args.acc # None
  /\ \/ Width(args.gyr) # 3
     \/ Width(args.acc) # 3
     \/ args.mag # None /\ Width(args.mag) # 3

\* Two arrays differ in the number or in the width of their rows.
Differ(a, b) == Len(a) # Len(b) \/ Width(a) # Width(b)

\* The arrays given differ in shape: acc from gyr, or mag from gyr.
ShapesDiffer ==
  /\ args.gyr # None /\ args.acc # None
  /\ \/ Differ(args.acc, args.gyr)
     \/ args.mag # None /\ Differ(args.mag, args.gyr)

C7_GainResolution ==
  pc # "init" =>
     gain = CASE args.beta # NoGain -> args.beta
              [] args.beta = NoGain /\ args.gain # NoGain -> args.gain
              [] args.beta = NoGain /\ args.gain = NoGain /\ args.mag = None
                   -> GainIMU
              [] OTHER -> GainMARG

C7_Witness ==
  /\ pc # "init"
  /\ args.beta # NoGain /\ args.gain # NoGain /\ args.beta # args.gain
  /\ args.mag # None
  /\ gain = args.beta

\* The construction with Dt = 1/f in place of frequency = f.
TwinDt == ResolveTiming(<< DefaultFrequency, 1 >>, Recip(args.frequency)).Dt

\* C8: after construction frequency * Dt = 1; without Dt the frequency is the
\* one given and Dt its reciprocal, with Dt the step is the one given and the
\* frequency its reciprocal; and construction with Dt = 1/f gives the step,
\* and so the update steps, of construction with frequency = f.
C8_TimingResolution ==
  pc # "init" =>
     /\ frequency[1] * Dt[1] = frequency[2] * Dt[2]
     /\ args.Dt = None =>
          /\ frequency = args.frequency
          /\ FracEq(Dt, Recip(args.frequency))
          /\ TwinDt = Dt
          /\ pc = "ready" =>
               \A q \in QSamples, a \in AccSamples :
                  updateIMU(q, << Scale, 0, 0 >>, a, gain, TwinDt)
                    = updateIMU(q, << Scale, 0, 0 >>, a, gain, Dt)
     /\ args.Dt # None =>
          /\ Dt = args.Dt
          /\ FracEq(frequency, Recip(args.Dt))

C8_Witness ==
  /\ pc # "init"
  /\ args.Dt # None
  /\ ~FracEq(args.frequency, Recip(args.Dt))
  /\ Dt = args.Dt

\* C9: in every state of a filter object, also after the caller sets Dt,
\* Dt is the inverse of frequency.
C9_DtIsInverseOfFrequency ==
  pc = "ready" => frequency[1] * Dt[1] = frequency[2] * Dt[2]

\* Every gyroscope sample after the first has zero norm.
StaticInput == \A k \in 2..Len(gyr) : Norm(gyr[k]) = 0

\* C10: when every gyroscope sample at index 1..N-1 has zero norm, every row
\* of Q is the seed quaternion.
C10_StaticInputHoldsSeed ==
  (Built /\ StaticInput) =>
     \A k \in 1..Len(Q) :
        /\ Q[k] = q0
        /\ args.q0 # None => Q[k] = VecDiv(args.q0, Norm(args.q0))

C10_Witness ==
  /\ Built /\ StaticInput
  /\ Len(Q) >= 3
  /\ Norm(gyr[1]) > 0
  /\ \A k \in 1..Len(Q) : Q[k] = Identity /\ Norm(acc[k]) > 0

\* ------------------------------------------------------------------- C11
\* C11: a recording of one sample runs no update step: the loop over
\* range(1, 1) is empty, so the batch driver returns exactly one row, and
\* that row is the seed, whatever the values of the single sample.
C11_SingleSampleIsSeed ==
  (Built /\ Len(gyr) = 1) =>
    /\ Len(Q) = 1
    /\ Q[1] = q0
    /\ t = 1

\* One sample with a turning gyroscope and a magnetometer reading has been
\* processed: an update step on it would have moved the seed.
C11_Witness ==
  /\ Built /\ Len(gyr) = 1 /\ Len(gyr[1]) = 3
  /\ Norm(gyr[1]) > 0
  /\ has_mag /\ Norm(mag[1]) > 0
  /\ ~IsNaN(Q[1])
  /\ updateMARG(q0, gyr[1], acc[1], mag[1], gain, Dt) # q0

\* ------------------------------------------------------------------- C12
\* C12: the seed is the caller's q0 divided by its norm when q0 is given;
\* otherwise it is am2q of the first accelerometer and magnetometer rows
\* exactly when a magnetometer array was supplied, and acc2q of the first
\* accelerometer row when none was.
C12_SeedSelection ==
  (pc \notin { "init", "seed" } /\ args.gyr # None /\ args.acc # None) =>
    q0 = IF args.q0 # None THEN VecDiv(args.q0, Norm(args.q0))
         ELSE IF args.mag # None THEN am2q(args.acc[1], args.mag[1])
         ELSE acc2q(args.acc[1])

\* A filter built without q0 and with a magnetometer array, whose seed is
\* not the one the accelerometer alone would give.
C12_Witness ==
  /\ pc = "ready" /\ args.gyr # None /\ args.acc # None
  /\ args.q0 = None /\ args.mag # None
  /\ q0 # acc2q(args.acc[1])
  /\ ~IsNaN(q0)
\* ------------------------------------------------------------------- C13
\* The logged call went past the gyroscope guard with a usable quaternion
\* and a nonzero accelerometer sample.
Correcting(c) ==
  /\ Norm(c.gyr) > 0 /\ Norm(c.acc) > 0
  /\ ~IsNaN(c.q) /\ Norm(c.q) > 0

\* The step the logged call ran in full: MARG only with a magnetometer
\* reading, IMU otherwise.
FullMARG(c) == c.op = "updateMARG" /\ Norm(c.mag) > 0

\* The gradient J.T @ f the logged call computed.
GradientOf(c) ==
  IF FullMARG(c) THEN GradientMARG(c.q, c.acc, Norm(c.acc), c.mag)
  ELSE GradientIMU(c.q, c.acc, Norm(c.acc))

\* C13: when the gyroscope and accelerometer samples are nonzero and the
\* gradient J.T @ f is exactly zero, the correction is skipped without a
\* division by zero, and the update returns the renormalized gyroscope-only
\* integration of its input quaternion.
C13_ZeroGradientSkipsCorrection ==
  ( /\ call # None
    /\ Correcting(call)
    /\ GradientOf(call) = << 0, 0, 0, 0 >> )
  => ret = Integrate(call.q, GyroRate(call.q, call.gyr), call.Dt)

\* ------------------------------------------------------------------- C14
\* qDot as the logged call computed it.
QDotOf(c) ==
  IF FullMARG(c) THEN QDotMARG(c.q, c.gyr, c.acc, c.mag, c.gain)
  ELSE QDotIMU(c.q, c.gyr, c.acc, c.gain)

\* C14: when the integrated quaternion q + qDot * Dt has norm zero, the
\* update fails with a DegenerateOrientation error instead of returning a
\* value.
C14_ZeroNormFails ==
  ( /\ call # None
    /\ Norm(call.gyr) > 0
    /\ Advance(call.q, QDotOf(call), call.Dt) = << 0, 0, 0, 0 >> )
  => err = "DegenerateOrientation"
\* ------------------------------------------------------------------- C15
\* Gains and nonzero magnetometer samples to compare the logged call with.
OtherGains == { 0, GainIMU, GainMARG, Div(Scale, 2), Scale }
OtherMags  == { << Scale, 2 * Scale, -Scale >>, << 0, Scale, 0 >>,
                << -3 * Scale, 0, 4 * Scale >> }

\* The logged call had a nonzero gyroscope sample, a zero accelerometer
\* sample and, for updateMARG, a nonzero magnetometer sample.
AccDropout(c) ==
  /\ Norm(c.gyr) > 0
  /\ c.acc = Zero3
  /\ c.op = "updateMARG" => Norm(c.mag) > 0

\* C15: with a nonzero gyroscope sample (and magnetometer sample for MARG)
\* and a zero accelerometer sample, the update applies no correction and
\* raises nothing: it returns normalize(q + 0.5 * (q (x) [0, gyr]) * Dt),
\* the same for every gain and, for MARG, for every nonzero magnetometer
\* sample.
C15_AccDropoutIsGyroIntegration ==
  (call # None /\ AccDropout(call)) =>
    /\ err = ""
    /\ ret = Integrate(call.q, GyroRate(call.q, call.gyr), call.Dt)
    /\ \A gn \in OtherGains :
         IF call.op = "updateIMU"
         THEN updateIMU(call.q, call.gyr, call.acc, gn, call.Dt) = ret
         ELSE \A m \in OtherMags :
                updateMARG(call.q, call.gyr, call.acc, m, gn, call.Dt) = ret

\* updateMARG has turned a unit quaternion with a zero accelerometer sample.
C15_Witness ==
  /\ call # None /\ call.op = "updateMARG" /\ AccDropout(call)
  /\ UnitNorm(call.q) /\ UnitNorm(ret)
  /\ ret # call.q
\* ------------------------------------------------------------------- C16
\* The call being made repeats the logged one: same method, same samples,
\* same gain and Dt, and the same quaternion variable qc.
RepeatsCall ==
  /\ call # None
  /\ call'.op = call.op
  /\ call'.gyr = call.gyr /\ call'.acc = call.acc /\ call'.mag = call.mag
  /\ call'.gain = call.gain /\ call'.Dt = call.Dt

\* C16: an update leaves the quaternion it was given unchanged, so two calls
\* on the same quaternion variable with the same samples return the same
\* result.
C16_UpdateIsPure ==
  [][ (ncalls' = ncalls + 1 /\ ~IsNaN(ret')) =>
        /\ qc' = qc
        /\ RepeatsCall => ret' = ret ]_vars
\* ------------------------------------------------------------------- C17
\* What the method computes from a call's arguments and the object's gain
\* and Dt alone.
ResultOf(c, gn, d) ==
  IF c.op = "updateIMU" THEN updateIMU(c.q, c.gyr, c.acc, gn, d)
  ELSE updateMARG(c.q, c.gyr, c.acc, c.mag, gn, d)

FieldOf(c) == RotateMag(c.q, VecDiv(c.mag, Norm(c.mag)))

\* The full MARG step of the logged call, run with the reference field
\* b = << bx, bz >>.
StepWithField(c, b) ==
  Integrate(c.q,
            Descend(GyroRate(c.q, c.gyr),
                    GradientRef(VecDiv(c.q, Norm(c.q)),
                                VecDiv(c.acc, Norm(c.acc)),
                                VecDiv(c.mag, Norm(c.mag)), b),
                    c.gain),
            c.Dt)

\* The reference field with bx from h_x and h_y, and the one with bx from
\* h_y and h_z.
FieldXY(h) == << Sqrt(h[2] * h[2] + h[3] * h[3]), h[4] >>
FieldYZ(h) == << Sqrt(h[3] * h[3] + h[4] * h[4]), h[4] >>

\* C18 as stated: the full MARG correction uses bx = sqrt(h_y^2 + h_z^2) and
\* bz = h_z, discarding h_x.
C18_FieldDiscardsHx ==
  (call # None /\ FullMARG(call) /\ Correcting(call)) =>
    /\ ReferenceField(FieldOf(call)) = FieldYZ(FieldOf(call))
    /\ ret = StepWithField(call, FieldYZ(FieldOf(call)))

\* C18, amended: the full MARG correction uses bx = sqrt(h_x^2 + h_y^2) and
\* bz = h_z; h_x and h_y are folded into bx and no component of h is
\* discarded.
C18_FieldFoldsHxHy ==
  (call # None /\ FullMARG(call) /\ Correcting(call)) =>
    /\ ReferenceField(FieldOf(call)) = FieldXY(FieldOf(call))
    /\ ret = StepWithField(call, FieldXY(FieldOf(call)))

\* A full MARG correction has run on a field whose two readings differ, and
\* returned what neither the other reading nor the gyroscope alone gives.
C18_Witness ==
  /\ call # None /\ FullMARG(call) /\ Correcting(call)
  /\ FieldXY(FieldOf(call)) # FieldYZ(FieldOf(call))
  /\ UnitNorm(ret)
  /\ ret # StepWithField(call, FieldYZ(FieldOf(call)))
  /\ ret # Integrate(call.q, GyroRate(call.q, call.gyr), call.Dt)
====
